---- MODULE Spec2Model ----
(***************************************************************************)
(* Model of symgas: the isentropic nozzle relations of                     *)
(* src/symgas/symbolic_nozzle.py and the numeric wrapper                   *)
(* IsentropicNozzleNumeric of src/symgas/numerics.py.                      *)
(*                                                                         *)
(* Numbers are exact.  A rational is a reduced pair <<n, d>> with d > 0.   *)
(* A positive real of the form  prod_i p_i^(e_i)  (p_i prime, e_i a        *)
(* non-zero rational) is the function p_i |-> e_i; every value the four    *)
(* formulas take at rational gamma and M has this form, and the            *)
(* representation is canonical, so = on it is equality of reals.           *)
(***************************************************************************)
EXTENDS Integers, Sequences, FiniteSets, TLC

(* ------------------------------ bounds --------------------------------- *)

MaxLen == 2          \* longest Mach array passed to the evaluator
MaxMachNum == 4      \* Mach numbers are m/1 and m/2 with m in 0..MaxMachNum

(* ----------------------------- rationals ------------------------------- *)

Abs(n) == IF n < 0 THEN -n ELSE n

RECURSIVE GCD(_, _)
GCD(a, b) == IF b = 0 THEN a ELSE GCD(b, a % b)

LCM(a, b) == (a \div GCD(a, b)) * b

RNorm(n, d) ==
    LET s == IF d < 0 THEN -1 ELSE 1
        c == GCD(Abs(n), Abs(d))
    IN  <<(s * n) \div c, (s * d) \div c>>

RInt(n) == <<n, 1>>
RAdd(a, b) == RNorm(a[1] * b[2] + b[1] * a[2], a[2] * b[2])
RSub(a, b) == RNorm(a[1] * b[2] - b[1] * a[2], a[2] * b[2])
RMul(a, b) == RNorm(a[1] * b[1], a[2] * b[2])
RDiv(a, b) == RNorm(a[1] * b[2], a[2] * b[1])
RNeg(a) == <<-a[1], a[2]>>
RLess(a, b) == a[1] * b[2] < b[1] * a[2]

(* ------------------- positive reals, by prime exponents ---------------- *)

One == [p \in {} |-> RInt(0)]

AExp(f, p) == IF p \in DOMAIN f THEN f[p] ELSE RInt(0)
ATrim(f) == [p \in {q \in DOMAIN f : f[q][1] # 0} |-> f[p]]
AMul(f, g) == ATrim([p \in DOMAIN f \cup DOMAIN g |-> RAdd(AExp(f, p), AExp(g, p))])
APow(f, e) == ATrim([p \in DOMAIN f |-> RMul(f[p], e)])

RECURSIVE LeastDivisor(_, _)
LeastDivisor(n, k) ==
    IF k * k > n THEN n
    ELSE IF n % k = 0 THEN k ELSE LeastDivisor(n, k + 1)

RECURSIVE Factor(_)
Factor(n) ==
    IF n = 1 THEN One
    ELSE LET p == LeastDivisor(n, 2)
         IN  AMul([q \in {p} |-> RInt(1)], Factor(n \div p))

AFromRat(r) == AMul(Factor(r[1]), APow(Factor(r[2]), RInt(-1)))

RECURSIVE SetLCM(_, _)
SetLCM(f, S) ==
    IF S = {} THEN 1
    ELSE LET p == CHOOSE q \in S : TRUE
         IN  LCM(f[p][2], SetLCM(f, S \ {p}))

RECURSIVE SetGCD(_, _)
SetGCD(n, S) ==
    IF S = {} THEN 0
    ELSE LET p == CHOOSE q \in S : TRUE
         IN  GCD(Abs(n[p]), SetGCD(n, S \ {p}))

RECURSIVE IntPow(_, _)
IntPow(b, k) == IF k = 0 THEN 1 ELSE b * IntPow(b, k - 1)

RECURSIVE SetProd(_, _)
SetProd(n, S) ==
    IF S = {} THEN 1
    ELSE LET p == CHOOSE q \in S : TRUE
         IN  IntPow(p, n[p]) * SetProd(n, S \ {p})

\* f < g as reals: with r = f/g = prod p^(n_p/q), r < 1 iff r^(q/k) < 1 for
\* k = gcd of the n_p, and r^(q/k) is a rational compared by its parts.
ALess(f, g) ==
    LET r == AMul(f, APow(g, RInt(-1)))
        q == SetLCM(r, DOMAIN r)
        n == [p \in DOMAIN r |-> r[p][1] * (q \div r[p][2])]
        k == SetGCD(n, DOMAIN r)
        up == [p \in {u \in DOMAIN r : n[u] > 0} |-> n[p] \div k]
        dn == [p \in {u \in DOMAIN r : n[u] < 0} |-> (-n[p]) \div k]
    IN  /\ DOMAIN r # {}
        /\ SetProd(up, DOMAIN up) < SetProd(dn, DOMAIN dn)

(* ------------------------------ values --------------------------------- *)
(* k = "pos": the positive real v; "zero"; "inf" (IEEE infinity);          *)
(* "zoo" (the symbolic engine's complex infinity); "nan".                  *)

VPos(f) == [k |-> "pos", v |-> f]
VZero == [k |-> "zero", v |-> One]
VInf == [k |-> "inf", v |-> One]
VZoo == [k |-> "zoo", v |-> One]
VNaN == [k |-> "nan", v |-> One]
VOne == VPos(One)

VFromRat(r) == IF r[1] = 0 THEN VZero ELSE VPos(AFromRat(r))

VMul(x, y) ==
    IF x.k = "nan" \/ y.k = "nan" THEN VNaN
    ELSE IF x.k = "zero" \/ y.k = "zero"
         THEN IF x.k \in {"inf", "zoo"} \/ y.k \in {"inf", "zoo"} THEN VNaN ELSE VZero
    ELSE IF x.k = "zoo" \/ y.k = "zoo" THEN VZoo
    ELSE IF x.k = "inf" \/ y.k = "inf" THEN VInf
    ELSE VPos(AMul(x.v, y.v))

\* an exponent: a rational, or zoo when its denominator vanished
ERat(r) == [k |-> "rat", r |-> r]
EZoo == [k |-> "zoo", r |-> RInt(0)]
EDiv(a, b) == IF b[1] = 0 THEN EZoo ELSE ERat(RDiv(a, b))

\* x ** e for x positive; anything ** zoo is nan
VPow(x, e) ==
    IF e.k = "zoo" \/ x.k # "pos" THEN VNaN
    ELSE VPos(APow(x.v, e.r))

VLess(x, y) == x.k = "pos" /\ y.k = "pos" /\ ALess(x.v, y.v)

(* ---------------- symbolic_nozzle.py: the four relations --------------- *)
(* Each relation is the source expression with gamma bound to the rational *)
(* g, evaluated at Mach number M by substitution in the symbolic engine     *)
(* (exact arithmetic; 1/0 is zoo and anything ** zoo is nan).              *)

\* 1 + (g - 1) / 2 * M**2
HalfGm1M2(g, M) ==
    RAdd(RInt(1), RMul(RDiv(RSub(g, RInt(1)), RInt(2)), RMul(M, M)))

\* 1 / M
SymInv(M) == IF M[1] = 0 THEN VZoo ELSE VFromRat(RDiv(RInt(1), M))

\* slip: the closing parenthesis before "* M**2", 1 / (1 + (g - 1) / 2) * M**2
temperature_ratio_misplaced_paren(g, M) ==
    VFromRat(RMul(RDiv(RInt(1), RAdd(RInt(1), RDiv(RSub(g, RInt(1)), RInt(2)))),
                  RMul(M, M)))

temperature_ratio_isentropic(g, M) ==
    VFromRat(RDiv(RInt(1), HalfGm1M2(g, M)))

\* slip: the exponent inverted, (g - 1) / g
pressure_ratio_inverted_exponent(g, M) ==
    LET T_T0 == temperature_ratio_isentropic(g, M)
    IN  VPow(T_T0, EDiv(RSub(g, RInt(1)), g))

pressure_ratio_isentropic(g, M) ==
    LET T_T0 == temperature_ratio_isentropic(g, M)
    IN  VPow(T_T0, EDiv(g, RSub(g, RInt(1))))

density_ratio_isentropic(g, M) ==
    LET T_T0 == temperature_ratio_isentropic(g, M)
    IN  VPow(T_T0, EDiv(RInt(1), RSub(g, RInt(1))))

\* slip: 2 / (g - 1) for 2 / (g + 1) in term
area_mach_wrong_term(g, M) ==
    LET term == VFromRat(RMul(RDiv(RInt(2), RSub(g, RInt(1))), HalfGm1M2(g, M)))
        exponent == EDiv(RAdd(g, RInt(1)), RMul(RInt(2), RSub(g, RInt(1))))
    IN  VMul(SymInv(M), VPow(term, exponent))

\* slip: the factor 1 / M left out
area_mach_without_inverse(g, M) ==
    LET term == VFromRat(RMul(RDiv(RInt(2), RAdd(g, RInt(1))), HalfGm1M2(g, M)))
        exponent == EDiv(RAdd(g, RInt(1)), RMul(RInt(2), RSub(g, RInt(1))))
    IN  VPow(term, exponent)

area_mach_relation(g, M) ==
    LET term == VFromRat(RMul(RDiv(RInt(2), RAdd(g, RInt(1))), HalfGm1M2(g, M)))
        exponent == EDiv(RAdd(g, RInt(1)), RMul(RInt(2), RSub(g, RInt(1))))
    IN  VMul(SymInv(M), VPow(term, exponent))

(* -------------- symbolic_nozzle.py: expressions_for_gamma -------------- *)
(* A substituted and simplified expression of M is held as data:           *)
(*     K * M**s * (1 + beta*M**2)**eps      or the constant nan.           *)
(* Simplification pulls the numeric factor out of the power and turns the  *)
(* power of a reciprocal into a negative power.                            *)

MkExpr(K, s, beta, eps) ==
    IF beta[1] = 0 \/ eps[1] = 0
    THEN [nan |-> FALSE, K |-> K, s |-> s, beta |-> RInt(0), eps |-> RInt(0)]
    ELSE [nan |-> FALSE, K |-> K, s |-> s, beta |-> beta, eps |-> eps]

NaNExpr == [nan |-> TRUE, K |-> One, s |-> 0, beta |-> RInt(0), eps |-> RInt(0)]

\* the expression does not contain the symbol M
IsConstant(e) == e.nan \/ (e.s = 0 /\ e.beta[1] = 0)

\* slip: the p_p0 and rho_rho0 entries built from each other's formula
expressions_for_gamma_swapped(g_value) ==
    LET gm1 == RSub(g_value, RInt(1))
        beta == RDiv(gm1, RInt(2))
        ep == EDiv(g_value, gm1)
        er == EDiv(RInt(1), gm1)
        ea == EDiv(RAdd(g_value, RInt(1)), RMul(RInt(2), gm1))
        c == AFromRat(RDiv(RInt(2), RAdd(g_value, RInt(1))))
    IN  [T_T0 |-> MkExpr(One, 0, beta, RInt(-1)),
         p_p0 |-> IF er.k = "zoo" THEN NaNExpr
                  ELSE MkExpr(One, 0, beta, RNeg(er.r)),
         rho_rho0 |-> IF ep.k = "zoo" THEN NaNExpr
                      ELSE MkExpr(One, 0, beta, RNeg(ep.r)),
         A_Astar |-> IF ea.k = "zoo" THEN NaNExpr
                     ELSE MkExpr(APow(c, ea.r), -1, beta, ea.r)]

expressions_for_gamma(g_value) ==
    LET gm1 == RSub(g_value, RInt(1))
        beta == RDiv(gm1, RInt(2))
        ep == EDiv(g_value, gm1)
        er == EDiv(RInt(1), gm1)
        ea == EDiv(RAdd(g_value, RInt(1)), RMul(RInt(2), gm1))
        c == AFromRat(RDiv(RInt(2), RAdd(g_value, RInt(1))))
    IN  [T_T0 |-> MkExpr(One, 0, beta, RInt(-1)),
         p_p0 |-> IF ep.k = "zoo" THEN NaNExpr
                  ELSE MkExpr(One, 0, beta, RNeg(ep.r)),
         rho_rho0 |-> IF er.k = "zoo" THEN NaNExpr
                      ELSE MkExpr(One, 0, beta, RNeg(er.r)),
         A_Astar |-> IF ea.k = "zoo" THEN NaNExpr
                     ELSE MkExpr(APow(c, ea.r), -1, beta, ea.r)]

\* the Python exception a float division by zero raises, as a value
VErr == [k |-> "ZeroDivisionError", v |-> One]

\* the value of expression e at M; pole is what 1/0 gives in the evaluating
\* arithmetic (zoo in the symbolic engine, inf in an array, VErr on a float)
EvalExpr(e, M, pole) ==
    IF e.nan THEN VNaN
    ELSE LET base == VFromRat(RAdd(RInt(1), RMul(e.beta, RMul(M, M))))
             body == VMul(VPos(e.K), VPow(base, ERat(e.eps)))
         IN  IF e.s = 0 THEN body
             ELSE IF M[1] # 0 THEN VMul(VFromRat(RDiv(RInt(1), M)), body)
             ELSE IF pole.k = "ZeroDivisionError" THEN pole
             ELSE VMul(pole, body)

\* expr.subs({mach: M})
SubsM(e, M) == EvalExpr(e, M, VZoo)

(* ------------------- numerics.py: numeric arguments -------------------- *)
(* A Mach argument is a Python float (dim 0), a Python list or a NumPy     *)
(* array; data holds its elements (one element for dim 0).                 *)

PyFloat(m) == [kind |-> "float", dim |-> 0, data |-> <<m>>]
PyList(ms) == [kind |-> "list", dim |-> 1, data |-> ms]
NdArray(ms) == [kind |-> "ndarray", dim |-> 1, data |-> ms]

\* np.asarray(x, dtype=float)
AsArray(x) == [kind |-> "ndarray", dim |-> x.dim, data |-> x.data]

NoArray == [kind |-> "none", dim |-> 0, data |-> <<>>]

Ok(a) == [status |-> "ok", value |-> a]
Raise(err) == [status |-> err, value |-> NoArray]

\* lambdify(mach, e, modules="numpy") applied to the argument x: the
\* generated function is the printed expression over x.  A constant
\* expression returns its Python scalar whatever x is; x**2 on a list is a
\* TypeError; division by a float zero is a ZeroDivisionError; on an array
\* the operations are element-wise with IEEE results.
Lambdified(e, x) ==
    IF IsConstant(e)
    THEN Ok([kind |-> "float", dim |-> 0, data |-> <<EvalExpr(e, RInt(0), VErr)>>])
    ELSE IF x.kind = "list" THEN Raise("TypeError")
    ELSE IF x.kind = "float"
         THEN LET v == EvalExpr(e, x.data[1], VErr)
              IN  IF v.k = "ZeroDivisionError" THEN Raise("ZeroDivisionError")
                  ELSE Ok([kind |-> "float", dim |-> 0, data |-> <<v>>])
    ELSE Ok([kind |-> "ndarray", dim |-> x.dim,
             data |-> [i \in 1..Len(x.data) |-> EvalExpr(e, x.data[i], VInf)]])


\* array * float
Scale(a, x) ==
    [kind |-> "ndarray", dim |-> a.dim,
     data |-> [i \in 1..Len(a.data) |-> VMul(a.data[i], x)]]

R == 287

None == <<0, 0>>

NoProfiles == [M |-> NoArray, T |-> NoArray, p |-> NoArray, rho |-> NoArray,
               A_Astar |-> NoArray]

(* ------------------------------ inputs --------------------------------- *)

GammaValues == {<<7, 5>>, <<5, 3>>, <<2, 1>>, <<3, 1>>}

\* gamma values an evaluator is constructed with: the above and gamma = 1
EvaluatorGammas == GammaValues \cup {RInt(1)}

MachGrid == {RNorm(m, n) : m \in 0..MaxMachNum, n \in {1, 2}}

ArrayMach == {RInt(0), RInt(1), RInt(2)}

MachSeqs == UNION {[1..n -> ArrayMach] : n \in 1..MaxLen}

MachArgs == {PyFloat(m) : m \in MachGrid}
            \cup {PyList(ms) : ms \in MachSeqs}
            \cup {NdArray(ms) : ms \in MachSeqs}

\* stagnation references (T0, p0, rho0): the defaults with rho0 omitted,
\* the defaults with rho0 = 0, and three values of the caller's
Stagnations ==
    {[T0 |-> RInt(300), p0 |-> RInt(100000), rho0 |-> None],
     [T0 |-> RInt(300), p0 |-> RInt(100000), rho0 |-> RInt(0)],
     [T0 |-> RInt(2), p0 |-> RInt(3), rho0 |-> <<5, 4>>]}

\* np.asarray(f(M), dtype=float), an exception of f(M) propagating
AccessorResult(f, M) ==
    LET r == Lambdified(f, M)
    IN  IF r.status = "ok" THEN Ok(AsArray(r.value)) ELSE r

\* the body of dimensional_profiles for the evaluator self
Profiles(self, M, T0, p0, rho0) ==
    LET M_arr == AsArray(M)
        rho0v == IF rho0 = None THEN RDiv(p0, RMul(RInt(R), T0)) ELSE rho0
        T_T0v == AccessorResult(self._T_T0, M_arr).value
        p_p0v == AccessorResult(self._p_p0, M_arr).value
        rho_rho0v == AccessorResult(self._rho_rho0, M_arr).value
        A_Astarv == AccessorResult(self._A_Astar, M_arr).value
    IN  [M |-> M_arr,
         T |-> Scale(T_T0v, VFromRat(T0)),
         p |-> Scale(p_p0v, VFromRat(p0)),
         rho |-> Scale(rho_rho0v, VFromRat(rho0v)),
         A_Astar |-> A_Astarv]

(* ------------------------------- state --------------------------------- *)

VARIABLES
    ev,      \* the IsentropicNozzleNumeric object; a compiled function is
             \* held as the expression it was generated from
    call     \* the operation in progress: its name, arguments and outcome;
             \* NoCall between operations

vars == <<ev, call>>

NoSym == [T_T0 |-> VNaN, p_p0 |-> VNaN, rho_rho0 |-> VNaN, A_Astar |-> VNaN,
          pack |-> [T_T0 |-> VNaN, p_p0 |-> VNaN, rho_rho0 |-> VNaN,
                    A_Astar |-> VNaN]]

NoCall == [op |-> "none", g |-> RInt(0), M |-> NoArray, T0 |-> RInt(0),
           p0 |-> RInt(0), rho0 |-> None, status |-> "ok", arr |-> NoArray,
           prof |-> NoProfiles, sym |-> NoSym]

NoFunction == NaNExpr

NoEvaluator == [built |-> FALSE, gamma_value |-> RInt(0),
                _T_T0 |-> NoFunction, _p_p0 |-> NoFunction,
                _rho_rho0 |-> NoFunction, _A_Astar |-> NoFunction]

Init ==
    /\ ev = NoEvaluator
    /\ call = NoCall

(* ------------------------------ actions -------------------------------- *)

\* the object __post_init__ leaves for gamma_value
Compiled(gamma_value) ==
    LET exprs == expressions_for_gamma(gamma_value)
    IN  [built |-> TRUE, gamma_value |-> gamma_value,
         _T_T0 |-> exprs.T_T0, _p_p0 |-> exprs.p_p0,
         _rho_rho0 |-> exprs.rho_rho0, _A_Astar |-> exprs.A_Astar]

\* no operation is in progress
Idle == call = NoCall

\* IsentropicNozzleNumeric(gamma_value)
PostInit(gamma_value) ==
    /\ Idle
    /\ ~ev.built
    /\ ev' = Compiled(gamma_value)
    /\ call' = [NoCall EXCEPT !.op = "__post_init__", !.g = gamma_value]

Accessor(name, f, M) ==
    /\ Idle
    /\ ev.built
    /\ LET r == AccessorResult(f, M)
       IN  call' = [NoCall EXCEPT !.op = name, !.M = M, !.status = r.status,
                                  !.arr = r.value]
    /\ UNCHANGED ev

T_T0(M) == Accessor("T_T0", ev._T_T0, M)
p_p0(M) == Accessor("p_p0", ev._p_p0, M)
rho_rho0(M) == Accessor("rho_rho0", ev._rho_rho0, M)
A_Astar(M) == Accessor("A_Astar", ev._A_Astar, M)

\* slip: the method stores a compiled function back into the object
dimensional_profiles_rebinding(M, T0, p0, rho0) ==
    /\ Idle
    /\ ev.built
    /\ call' = [NoCall EXCEPT !.op = "dimensional_profiles", !.M = M,
                              !.T0 = T0, !.p0 = p0, !.rho0 = rho0,
                              !.prof = Profiles(ev, M, T0, p0, rho0)]
    /\ ev' = [ev EXCEPT !._rho_rho0 = ev._p_p0]

dimensional_profiles(M, T0, p0, rho0) ==
    /\ Idle
    /\ ev.built
    /\ call' = [NoCall EXCEPT !.op = "dimensional_profiles", !.M = M,
                              !.T0 = T0, !.p0 = p0, !.rho0 = rho0,
                              !.prof = Profiles(ev, M, T0, p0, rho0)]
    /\ UNCHANGED ev

\* the four relations and the bundled expressions, gamma bound to g, all
\* evaluated at M (the evaluation the tests perform)
EvaluateFormulas(g, M) ==
    /\ Idle
    /\ LET exprs == expressions_for_gamma(g)
       IN  call' = [NoCall EXCEPT
                !.op = "formulas", !.g = g, !.M = PyFloat(M),
                !.sym = [T_T0 |-> temperature_ratio_isentropic(g, M),
                         p_p0 |-> pressure_ratio_isentropic(g, M),
                         rho_rho0 |-> density_ratio_isentropic(g, M),
                         A_Astar |-> area_mach_relation(g, M),
                         pack |-> [T_T0 |-> SubsM(exprs.T_T0, M),
                                   p_p0 |-> SubsM(exprs.p_p0, M),
                                   rho_rho0 |-> SubsM(exprs.rho_rho0, M),
                                   A_Astar |-> SubsM(exprs.A_Astar, M)]]]
    /\ UNCHANGED ev

\* the operation returns to its caller
Return ==
    /\ ~Idle
    /\ call' = NoCall
    /\ UNCHANGED ev

Next ==
    \/ \E g \in EvaluatorGammas : PostInit(g)
    \/ \E M \in MachArgs : T_T0(M)
    \/ \E M \in MachArgs : p_p0(M)
    \/ \E M \in MachArgs : rho_rho0(M)
    \/ \E M \in MachArgs : A_Astar(M)
    \/ \E M \in MachArgs, s \in Stagnations :
            dimensional_profiles(M, s.T0, s.p0, s.rho0)
    \/ \E g \in GammaValues, M \in MachGrid : EvaluateFormulas(g, M)
    \/ Return

Spec == Init /\ [][Next]_vars

(* ---------------------------- properties ------------------------------- *)

IsFormulas == call.op = "formulas"
Mach == call.M.data[1]
AccessorNames == {"T_T0", "p_p0", "rho_rho0", "A_Astar"}
IsAccessor == call.op \in AccessorNames
GammaAboveOne == ev.built /\ RLess(RInt(1), ev.gamma_value)

\* C1: for every gamma > 1 the temperature, pressure and density ratio
\* formulas all evaluate to 1 at M = 0.
C1_RatiosAreOneAtMachZero ==
    (IsFormulas /\ Mach = RInt(0)) =>
        /\ call.sym.T_T0 = VOne
        /\ call.sym.p_p0 = VOne
        /\ call.sym.rho_rho0 = VOne

C1_Witness ==
    /\ IsFormulas /\ Mach = RInt(0) /\ call.g = <<7, 5>>
    /\ call.sym.p_p0 = VOne

\* C2: for every gamma > 1 the area-Mach relation evaluates to 1 at M = 1.
C2_AreaIsOneAtMachOne ==
    (IsFormulas /\ Mach = RInt(1)) => call.sym.A_Astar = VOne

C2_Witness ==
    /\ IsFormulas /\ Mach = RInt(1) /\ call.g = <<5, 3>>
    /\ call.sym.A_Astar = VOne

\* C3: for every gamma > 1 and M > 0 each of the four expressions of
\* expressions_for_gamma(gamma) (substituted and simplified) has at M the
\* value of the corresponding formula with gamma substituted and no
\* simplification.
C3_BundledEqualsDirect ==
    (IsFormulas /\ Mach[1] > 0) =>
        /\ call.sym.pack.T_T0 = call.sym.T_T0
        /\ call.sym.pack.p_p0 = call.sym.p_p0
        /\ call.sym.pack.rho_rho0 = call.sym.rho_rho0
        /\ call.sym.pack.A_Astar = call.sym.A_Astar

C3_Witness ==
    /\ IsFormulas /\ Mach = RInt(2) /\ call.g = <<7, 5>>
    /\ call.sym.pack.T_T0 = VFromRat(<<5, 9>>)
    /\ call.sym.pack.A_Astar = VFromRat(<<27, 16>>)
    /\ call.sym.pack.p_p0 = call.sym.p_p0

\* C4: for every gamma = a/b > 1 and M > 0 the pressure ratio is the
\* temperature ratio to the power gamma/(gamma-1) = a/(a-b) and the density
\* ratio is the temperature ratio to the power 1/(gamma-1) = b/(a-b); for
\* positive reals these are p^(a-b) = T^a and rho^(a-b) = T^b.
C4_PowersOfTemperatureRatio ==
    (IsFormulas /\ Mach[1] > 0) =>
        LET a == call.g[1]
            b == call.g[2]
            T == call.sym.T_T0
        IN  /\ call.sym.p_p0.k = "pos" /\ call.sym.rho_rho0.k = "pos"
            /\ VPow(call.sym.p_p0, ERat(RInt(a - b))) = VPow(T, ERat(RInt(a)))
            /\ VPow(call.sym.rho_rho0, ERat(RInt(a - b))) = VPow(T, ERat(RInt(b)))

C4_Witness ==
    /\ IsFormulas /\ Mach = RInt(2) /\ call.g = <<7, 5>>
    /\ call.sym.T_T0 = VFromRat(<<5, 9>>)
    /\ VPow(call.sym.p_p0, ERat(RInt(2))) = VFromRat(<<78125, 4782969>>)
    /\ VPow(call.sym.rho_rho0, ERat(RInt(2))) = VFromRat(<<3125, 59049>>)

\* C5: constructing the evaluator with gamma_value = 1 fails at
\* construction time; no evaluator object is produced.
C5_GammaOneFailsAtConstruction ==
    ~(ev.built /\ ev.gamma_value = RInt(1))

\* the value a compiled function f takes on the single array element m
ElementValue(f, m) == AccessorResult(f, AsArray(PyFloat(m))).value.data[1]

CompiledOf(name) ==
    CASE name = "T_T0" -> ev._T_T0
      [] name = "p_p0" -> ev._p_p0
      [] name = "rho_rho0" -> ev._rho_rho0
      [] name = "A_Astar" -> ev._A_Astar

IsProfiles == call.op = "dimensional_profiles"
Indices == 1..Len(call.M.data)

\* rho0 as specified: the supplied value, p0/(287*T0) when omitted
SpecifiedRho0 ==
    IF call.rho0 = None THEN RDiv(call.p0, RMul(RInt(287), call.T0))
    ELSE call.rho0

\* T[i] = T_T0(M[i])*T0, p[i] = p_p0(M[i])*p0, rho[i] = rho_rho0(M[i])*rho0'
\* and A_Astar[i] = A_Astar(M[i]) at every index i of M
ProfilesScaled ==
    \A i \in Indices :
        /\ i \in DOMAIN call.prof.T.data /\ i \in DOMAIN call.prof.p.data
        /\ i \in DOMAIN call.prof.rho.data /\ i \in DOMAIN call.prof.A_Astar.data
        /\ call.prof.T.data[i] =
               VMul(ElementValue(ev._T_T0, call.M.data[i]), VFromRat(call.T0))
        /\ call.prof.p.data[i] =
               VMul(ElementValue(ev._p_p0, call.M.data[i]), VFromRat(call.p0))
        /\ call.prof.rho.data[i] =
               VMul(ElementValue(ev._rho_rho0, call.M.data[i]), VFromRat(SpecifiedRho0))
        /\ call.prof.A_Astar.data[i] = ElementValue(ev._A_Astar, call.M.data[i])

\* C6: dimensional_profiles returns T[i] = T_T0(M[i])*T0, p[i] = p_p0(M[i])*p0
\* and rho[i] = rho_rho0(M[i])*rho0' for every index i of M, rho0' the
\* supplied rho0 (0 included) or p0/(287*T0) when rho0 is None, and A_Astar
\* unscaled.
C6_ProfilesAreScaledRatios == IsProfiles => ProfilesScaled

\* C7: for fixed gamma > 1, T/T0, p/p0 and rho/rho0 strictly decrease in M
\* over M >= 0; A/A* strictly decreases over 0 < M <= 1 and strictly
\* increases over M >= 1, its minimum 1 attained only at M = 1.
C7_Monotone ==
    IsFormulas =>
        /\ \A M2 \in MachGrid :
             LET at2 == [T_T0 |-> temperature_ratio_isentropic(call.g, M2),
                         p_p0 |-> pressure_ratio_isentropic(call.g, M2),
                         rho_rho0 |-> density_ratio_isentropic(call.g, M2),
                         A_Astar |-> area_mach_relation(call.g, M2)]
             IN  /\ RLess(Mach, M2) =>
                        /\ VLess(at2.T_T0, call.sym.T_T0)
                        /\ VLess(at2.p_p0, call.sym.p_p0)
                        /\ VLess(at2.rho_rho0, call.sym.rho_rho0)
                 /\ (Mach[1] > 0 /\ RLess(Mach, M2) /\ ~RLess(RInt(1), M2)) =>
                        VLess(at2.A_Astar, call.sym.A_Astar)
                 /\ (~RLess(Mach, RInt(1)) /\ RLess(Mach, M2)) =>
                        VLess(call.sym.A_Astar, at2.A_Astar)
        /\ (Mach[1] > 0 /\ Mach # RInt(1)) => VLess(VOne, call.sym.A_Astar)
        /\ Mach = RInt(1) => call.sym.A_Astar = VOne

C7_Witness ==
    /\ IsFormulas /\ Mach = <<1, 2>> /\ call.g = <<2, 1>>
    /\ VLess(area_mach_relation(call.g, RInt(1)), call.sym.A_Astar)
    /\ VLess(area_mach_relation(call.g, RInt(1)), area_mach_relation(call.g, RInt(2)))
    /\ VLess(pressure_ratio_isentropic(call.g, RInt(1)), call.sym.p_p0)

\* C8: for gamma > 1 each accessor applied to a sequence M returns a
\* sequence of the same length whose i-th element is the formula evaluated
\* at M[i] alone, and dimensional_profiles returns M, T, p, rho, A_Astar all
\* of the length of the input M, aligned with it, the M entry equal to the
\* input.
C8_ElementWiseAndAligned ==
    GammaAboveOne =>
        /\ (IsAccessor /\ call.M.dim = 1) =>
              /\ call.status = "ok"
              /\ call.arr.dim = 1
              /\ Len(call.arr.data) = Len(call.M.data)
              /\ \A i \in Indices :
                    call.arr.data[i] = ElementValue(CompiledOf(call.op), call.M.data[i])
        /\ (IsProfiles /\ call.M.dim = 1) =>
              /\ call.prof.M.data = call.M.data
              /\ \A name \in {"M", "T", "p", "rho", "A_Astar"} :
                    /\ call.prof[name].dim = 1
                    /\ Len(call.prof[name].data) = Len(call.M.data)
              /\ ProfilesScaled

\* how a result presents the pole at its element i
PoleOutcome(status, a, i) ==
    IF status # "ok" THEN "error"
    ELSE IF a.data[i].k \in {"inf", "nan"} THEN "nonfinite"
    ELSE "finite"

ScalarPoleOutcome ==
    LET r == AccessorResult(ev._A_Astar, PyFloat(RInt(0)))
    IN  PoleOutcome(r.status, r.value, 1)

\* C9: M = 0 passed to the area-Mach relation has one outcome for every way
\* of supplying it (scalar to A_Astar, array containing 0 to A_Astar, M
\* containing 0 to dimensional_profiles): always infinity/NaN or always an
\* error, never a finite value; T, p and rho at M = 0 stay the stagnation
\* values.
C9_PoleOutcomeConsistent ==
    (GammaAboveOne /\ call.M.kind \in {"float", "ndarray"}) =>
        \A i \in Indices : call.M.data[i] = RInt(0) =>
            /\ call.op = "A_Astar" =>
                  /\ PoleOutcome(call.status, call.arr, i) = ScalarPoleOutcome
                  /\ PoleOutcome(call.status, call.arr, i) # "finite"
            /\ IsProfiles =>
                  /\ PoleOutcome("ok", call.prof.A_Astar, i) = ScalarPoleOutcome
                  /\ PoleOutcome("ok", call.prof.A_Astar, i) # "finite"
                  /\ call.prof.T.data[i] = VFromRat(call.T0)
                  /\ call.prof.p.data[i] = VFromRat(call.p0)
                  /\ call.prof.rho.data[i] = VFromRat(SpecifiedRho0)
            /\ call.op \in {"T_T0", "p_p0", "rho_rho0"} =>
                  call.status = "ok" /\ call.arr.data[i] = VOne

\* C10: the four numeric functions are compiled once, at construction, from
\* the gamma given then; no accessor call or dimensional_profiles call
\* changes the evaluator, so every accessor call returns for its M what the
\* functions compiled at construction return for it.
C10_CompiledOnceAndFrame ==
    /\ [](ev.built =>
            /\ ev = Compiled(ev.gamma_value)
            /\ IsAccessor =>
                  LET r == AccessorResult(
                             CASE call.op = "T_T0" -> Compiled(ev.gamma_value)._T_T0
                               [] call.op = "p_p0" -> Compiled(ev.gamma_value)._p_p0
                               [] call.op = "rho_rho0" -> Compiled(ev.gamma_value)._rho_rho0
                               [] call.op = "A_Astar" -> Compiled(ev.gamma_value)._A_Astar,
                             call.M)
                  IN  call.status = r.status /\ call.arr = r.value)
    /\ [][ev.built => ev' = ev]_vars

C10_Witness ==
    /\ ev.built /\ ev.gamma_value = <<7, 5>>
    /\ call.op = "p_p0" /\ call.M = NdArray(<<RInt(2), RInt(0)>>)
    /\ call.status = "ok" /\ call.arr.data[2] = VOne

====
